---- MODULE Spec2Model ----
(***************************************************************************)
(* tera-shortcodes: the Shortcodes registry (register / call) of           *)
(* src/src/lib.rs and the fetch_shortcode_js snippet generator.            *)
(*                                                                         *)
(* Strings the code inspects character by character (display names, HTTP   *)
(* methods, argument values) are sequences of one-character strings.       *)
(* Longer texts are sequences of tokens, a token being a literal chunk of  *)
(* a format! template or an interpolated character.                        *)
(***************************************************************************)
EXTENDS Integers, Sequences, FiniteSets, TLC

VARIABLES
    functions,   \* Shortcodes.functions: display name -> function pointer
    latest,      \* display name -> function of the latest register call
    pc,          \* per caller: where its call stands
    args,        \* per caller: the argument map of its current (or last) call
    elapsed,     \* per caller: seconds between its previous call and this one
    prevRet,     \* per caller: what its previous call returned, when this
                 \*   call repeats the arguments of that call
    held,        \* per caller: the function pointer the lookup gave, or "none"
    passed,      \* per caller: the map its call handed to the function
    invoked,     \* per caller: the function its call invoked, or "none"
    frag,        \* per caller: the fragment the function returned
    ret,         \* per caller: the outcome of its last call
    count,       \* invocations of each function pointer so far
    cacheFiles,  \* the fragment files on disk: key -> text
    fIn, fOut, fDone,     \* fetch_shortcode_js: parameters, result, applied
    kIn, kOut, kDone      \* cache key derivation: two argument lists, keys

vars == <<functions, latest, pc, args, elapsed, prevRet, held, passed,
          invoked, frag, ret, count, cacheFiles,
          fIn, fOut, fDone, kIn, kOut, kDone>>
fetchVars == <<fIn, fOut, fDone>>
keyVars == <<kIn, kOut, kDone>>

\* ------------------------------------------------------------ bounds
\* Invocations of one registered function that a behaviour may hold.
MaxCalls == 2

\* ------------------------------------------------------------ values
\* tera::Value (a JSON value): the tag is the variant, s its payload.
Str(s) == [s |-> s, tag |-> "String"]
Num(s) == [s |-> s, tag |-> "Number"]
Bool(s) == [s |-> s, tag |-> "Bool"]

\* Option<&str>
None == [some |-> FALSE, v |-> <<>>]
Some(v) == [some |-> TRUE, v |-> v]

\* The characters trim_matches removes: '"' and '\''.
QuoteChars == {"\"", "'"}

\* str::trim_matches(|c| c == '"' || c == '\''): every leading and every
\* trailing matching character is removed, not only one layer.
RECURSIVE TrimStart(_)
TrimStart(s) ==
    IF s # <<>> /\ Head(s) \in QuoteChars THEN TrimStart(Tail(s)) ELSE s

RECURSIVE TrimEnd(_)
TrimEnd(s) ==
    IF s # <<>> /\ s[Len(s)] \in QuoteChars
    THEN TrimEnd(SubSeq(s, 1, Len(s) - 1))
    ELSE s

TrimMatches_OneLayer(s) ==
    LET a == IF s # <<>> /\ Head(s) \in QuoteChars THEN Tail(s) ELSE s
    IN  IF a # <<>> /\ a[Len(a)] \in QuoteChars
        THEN SubSeq(a, 1, Len(a) - 1)
        ELSE a

TrimMatches(s) == TrimEnd(TrimStart(s))

\* An argument map without entries.
EmptyMap == [k \in {} |-> Str(<<>>)]

\* HashMap::get
HasKey(m, k) == k \in DOMAIN m

\* ------------------------------------------------------------ registry
\* The function pointers that can be registered. What a pointer of type
\* fn(&HashMap<String, tera::Value>) -> String returns is up to the function:
\* it is drawn from Outputs at each invocation.
Fns == {"f1", "f2"}
Outputs == {<<"X">>, <<"Y">>}

\* Display names given to register.
RegNames == {<<"a">>, <<"'", "a">>}

\* HashMap::insert on self.functions: a present key gets the new value.
Insert_KeepFirst(fs, display, f) ==
    [n \in DOMAIN fs \cup {display} |-> IF n \in DOMAIN fs THEN fs[n] ELSE f]

Insert(fs, display, f) ==
    [n \in DOMAIN fs \cup {display} |-> IF n = display THEN f ELSE fs[n]]

\* Shortcodes::new
NewFunctions == [n \in {} |-> "f1"]

\* ------------------------------------------------------------ call
MissingText == <<"Missing display attribute">>
UnknownPrefix == <<"Unknown shortcode display name: ">>

Ok(text) == [kind |-> "Ok", text |-> text]
Panic == [kind |-> "Panic", text |-> <<>>]
NoResult == [kind |-> "None", text |-> <<>>]

\* Lines 85-90: the display name the lookup uses, or the early outcome.
\*   "Return": Ok("Missing display attribute");
\*   "Panic":  as_str() is None for a value that is no String, unwrap panics;
\*   "Name":   the trimmed string.
GetDisplay_MissingFails(a) ==
    IF ~HasKey(a, "display") THEN [k |-> "Panic", s |-> <<>>]
    ELSE IF a["display"].tag # "String" THEN [k |-> "Panic", s |-> <<>>]
    ELSE [k |-> "Name", s |-> TrimMatches(a["display"].s)]

GetDisplay(a) ==
    IF ~HasKey(a, "display") THEN [k |-> "Return", s |-> <<>>]
    ELSE IF a["display"].tag # "String" THEN [k |-> "Panic", s |-> <<>>]
    ELSE [k |-> "Name", s |-> TrimMatches(a["display"].s)]

\* Lines 92-97, self.functions.get(display): the function registered under
\* the name, if there is one.
Lookup(fs, name) ==
    IF name \in DOMAIN fs
    THEN [f |-> fs[name], found |-> TRUE]
    ELSE [f |-> "none", found |-> FALSE]

\* HashMap::get takes &self: the lookup leaves the registry as it is.
RegistryAfterLookup_Entry(fs, name) ==
    [n \in DOMAIN fs \cup {name} |-> IF n \in DOMAIN fs THEN fs[n] ELSE "f1"]

RegistryAfterLookup(fs, name) == fs

\* Line 95: format!("Unknown shortcode display name: {}", display)
UnknownText_Bare(display) == UnknownPrefix

UnknownText(display) == UnknownPrefix \o display

\* Line 93: the map handed to the shortcode function is args itself.
PassedArgs(a) == a

\* Line 99: the fragment is returned as it is.
WrapFragment_Const(fragment) == Ok(<<"X">>)

WrapFragment(fragment) == Ok(fragment)

\* ------------------------------------------------------------ cache key
\* The order of the characters that occur in keys and values (their code
\* points ascending), for the lexicographic sort.
CharOrder ==
    <<"\"", "'", "-", "0", "1", "5", "_", "a", "b", "c", "d", "e", "g", "i",
      "l", "m", "o", "p", "r", "s", "t", "x", "y">>

Rank(c) == CHOOSE i \in 1..Len(CharOrder) : CharOrder[i] = c

\* The characters of a parameter name.
KeyChars(k) ==
    CASE k = "display" -> <<"d", "i", "s", "p", "l", "a", "y">>
      [] k = "rotate" -> <<"r", "o", "t", "a", "t", "e">>
      [] k = "image_src" -> <<"i", "m", "a", "g", "e", "_", "s", "r", "c">>
      [] OTHER -> <<k>>

\* Unquoting: one layer of a leading and of a trailing quote is stripped.
Unquote(v) ==
    LET a == IF v # <<>> /\ Head(v) \in QuoteChars THEN Tail(v) ELSE v
    IN  IF a # <<>> /\ a[Len(a)] \in QuoteChars
        THEN SubSeq(a, 1, Len(a) - 1)
        ELSE a

\* s sorts before t, or is t, in the lexicographic order of strings.
RECURSIVE LexLeq(_, _)
LexLeq(s, t) ==
    IF s = <<>> THEN TRUE
    ELSE IF t = <<>> THEN FALSE
    ELSE IF Head(s) # Head(t) THEN Rank(Head(s)) < Rank(Head(t))
    ELSE LexLeq(Tail(s), Tail(t))

RECURSIVE InsertSorted(_, _)
InsertSorted(x, sorted) ==
    IF sorted = <<>> THEN <<x>>
    ELSE IF LexLeq(x, Head(sorted)) THEN <<x>> \o sorted
    ELSE <<Head(sorted)>> \o InsertSorted(x, Tail(sorted))

RECURSIVE SortTokens(_)
SortTokens(list) ==
    IF list = <<>> THEN <<>>
    ELSE InsertSorted(Head(list), SortTokens(Tail(list)))

\* The tokens of an argument list in iteration order: for every key but
\* rotate the key, and the unquoted value when it is not empty.
RECURSIVE Tokens(_)
Tokens(pairs) ==
    IF pairs = <<>> THEN <<>>
    ELSE LET k == Head(pairs)[1]
             v == Unquote(Head(pairs)[2].s)
         IN  (IF k = "rotate" THEN <<>>
              ELSE IF v = <<>> THEN <<KeyChars(k)>>
              ELSE <<KeyChars(k), v>>)
             \o Tokens(Tail(pairs))

RECURSIVE Join(_)
Join(list) ==
    IF list = <<>> THEN <<>>
    ELSE IF Len(list) = 1 THEN Head(list)
    ELSE Head(list) \o <<"-">> \o Join(Tail(list))

Canonical_Unsorted(pairs) == Join(Tokens(pairs))

\* The canonical string of an argument list.
Canonical(pairs) == Join(SortTokens(Tokens(pairs)))

\* The fingerprint of a canonical string: a fixed function of the string.
Fingerprint(canon) == <<"hex">> \o canon

AllStrings(pairs) ==
    \A i \in 1..Len(pairs) :
        pairs[i][1] = "rotate" \/ pairs[i][2].tag = "String"

\* The cache key of an argument list, or the InvalidArgument failure.
CacheKey(pairs) ==
    IF AllStrings(pairs)
    THEN [key |-> Fingerprint(Canonical(pairs)), ok |-> TRUE]
    ELSE [key |-> <<"InvalidArgument">>, ok |-> FALSE]

\* An argument map listed in one of its iteration orders.
RECURSIVE ListOf(_)
ListOf(m) ==
    IF DOMAIN m = {} THEN <<>>
    ELSE LET k == CHOOSE x \in DOMAIN m : TRUE
         IN  <<<<k, m[k]>>>> \o ListOf([x \in DOMAIN m \ {k} |-> m[x]])

\* Fragment Store write: a file that exists is not overwritten.
StoreWrite(files, key, text) ==
    [k \in DOMAIN files \cup {key} |->
        IF k \in DOMAIN files THEN files[k] ELSE text]

FilesAfterCall_Store(files, a, fragment) ==
    StoreWrite(files, CacheKey(ListOf(a)).key, fragment)

\* call performs no file operation: the files on disk after a call that
\* computed frag for the argument map a are the files before it.
FilesAfterCall(files, a, fragment) == files

\* ------------------------------------------------------------ callers
\* Function requires Sync + Send: call(&self) may run on several threads.
Threads == {"t1", "t2"}
Main == "t1"

\* Display values of the argument maps dispatched.
DisplayVals ==
    { Str(<<"a">>), Str(<<"b">>),
      Str(<<"'", "a", "'">>), Str(<<"\"", "a", "\"">>),
      Str(<<"\"", "'", "a">>), Str(<<"'", "'">>),
      Num(<<"5">>), Bool(<<"true">>) }

DisplayMaps == {EmptyMap} \cup { "display" :> d : d \in DisplayVals }

\* The other entries of the argument maps dispatched.
RestMaps ==
    { EmptyMap,
      "rotate" :> Str(<<"0">>),
      "rotate" :> Str(<<"5">>),
      "image_src" :> Str(<<"x">>),
      ("rotate" :> Str(<<"5">>)) @@ ("image_src" :> Num(<<"1">>)) }

ArgMaps == { d @@ r : d \in DisplayMaps, r \in RestMaps }

\* Seconds that may lie between two calls of one caller.
Ages == {4, 6}

Idle == \A t \in Threads : pc[t] = "idle"

InitCallers ==
    /\ pc = [t \in Threads |-> "idle"]
    /\ args = [t \in Threads |-> EmptyMap]
    /\ elapsed = [t \in Threads |-> 0]
    /\ prevRet = [t \in Threads |-> NoResult]
    /\ held = [t \in Threads |-> "none"]
    /\ passed = [t \in Threads |-> EmptyMap]
    /\ invoked = [t \in Threads |-> "none"]
    /\ frag = [t \in Threads |-> <<>>]
    /\ ret = [t \in Threads |-> NoResult]
    /\ count = [f \in Fns |-> 0]
    /\ cacheFiles = [k \in {} |-> <<>>]

InitCall ==
    /\ functions = NewFunctions
    /\ latest = NewFunctions
    /\ InitCallers

InitFetch ==
    /\ fIn = [alt |-> None, json_body |-> None, method |-> None, url |-> <<>>]
    /\ fOut = <<>>
    /\ fDone = FALSE

InitKey ==
    /\ kIn = <<<<>>, <<>>>>
    /\ kOut = <<<<>>, <<>>>>
    /\ kDone = FALSE

Init == InitCall /\ InitFetch /\ InitKey

\* register(mut self, display, shortcode_fn) -> Self. It takes the registry
\* by value, so no call can be borrowing it.
Register(display, f) ==
    /\ Idle
    /\ functions' = Insert(functions, display, f)
    /\ latest' = [n \in DOMAIN latest \cup {display} |->
                    IF n = display THEN f ELSE latest[n]]
    /\ UNCHANGED <<pc, args, elapsed, prevRet, held, passed, invoked, frag,
                   ret, count, cacheFiles>>
    /\ UNCHANGED <<fetchVars, keyVars>>

\* call, lines 85-97, up to the point where the shortcode function is entered:
\* the call has returned a sentinel, has panicked, or holds the function.
CallEnter(t, a, e) ==
    /\ pc[t] = "idle"
    /\ LET d == GetDisplay(a)
           l == IF d.k = "Name" THEN Lookup(functions, d.s)
                ELSE [f |-> "none", found |-> FALSE]
       IN /\ l.found => count[l.f] < MaxCalls
          /\ pc' = [pc EXCEPT ![t] = IF l.found THEN "invoking" ELSE "idle"]
          /\ held' = [held EXCEPT ![t] = l.f]
          /\ ret' = [ret EXCEPT ![t] =
                       IF d.k = "Return" THEN Ok(MissingText)
                       ELSE IF d.k = "Panic" THEN Panic
                       ELSE IF l.found THEN NoResult
                       ELSE Ok(UnknownText(d.s))]
          /\ functions' = IF d.k = "Name"
                          THEN RegistryAfterLookup(functions, d.s)
                          ELSE functions
    /\ args' = [args EXCEPT ![t] = a]
    /\ elapsed' = [elapsed EXCEPT ![t] = e]
    /\ prevRet' = [prevRet EXCEPT ![t] =
                     IF a = args[t] THEN ret[t] ELSE NoResult]
    /\ passed' = [passed EXCEPT ![t] = EmptyMap]
    /\ invoked' = [invoked EXCEPT ![t] = "none"]
    /\ frag' = [frag EXCEPT ![t] = <<>>]
    /\ UNCHANGED <<latest, count, cacheFiles>>
    /\ UNCHANGED <<fetchVars, keyVars>>

\* Line 93, shortcode_fn(args): the function runs and returns its fragment.
Invoke(t, out) ==
    /\ pc[t] = "invoking"
    /\ invoked' = [invoked EXCEPT ![t] = held[t]]
    /\ count' = [count EXCEPT ![held[t]] = @ + 1]
    /\ passed' = [passed EXCEPT ![t] = PassedArgs(args[t])]
    /\ frag' = [frag EXCEPT ![t] = out]
    /\ pc' = [pc EXCEPT ![t] = "computed"]
    /\ UNCHANGED <<functions, latest, args, elapsed, prevRet, held, ret,
                   cacheFiles>>
    /\ UNCHANGED <<fetchVars, keyVars>>

\* Line 99: Ok(tera::Value::String(fragment)).
CallReturn(t) ==
    /\ pc[t] = "computed"
    /\ ret' = [ret EXCEPT ![t] = WrapFragment(frag[t])]
    /\ cacheFiles' = FilesAfterCall(cacheFiles, args[t], frag[t])
    /\ pc' = [pc EXCEPT ![t] = "idle"]
    /\ UNCHANGED <<functions, latest, args, elapsed, prevRet, held, passed,
                   invoked, frag, count>>
    /\ UNCHANGED <<fetchVars, keyVars>>

\* One caller: a registry built and used by a single thread.
Next ==
    \/ \E n \in RegNames, f \in Fns : Register(n, f)
    \/ \E a \in ArgMaps, e \in Ages : CallEnter(Main, a, e)
    \/ \E out \in Outputs : Invoke(Main, out)
    \/ CallReturn(Main)

Spec == Init /\ [][Next]_vars

\* Several callers of one registry, built before they start.
Registries ==
    UNION { [ns -> Fns] : ns \in SUBSET RegNames }

ConcArgs ==
    { "display" :> Str(<<"a">>),
      ("display" :> Str(<<"a">>)) @@ ("rotate" :> Str(<<"5">>)),
      ("display" :> Str(<<"'", "a", "'">>)) @@ ("image_src" :> Str(<<"x">>)),
      "display" :> Str(<<"b">>) }

InitConc ==
    /\ functions \in Registries
    /\ latest = functions
    /\ InitCallers
    /\ InitFetch /\ InitKey

NextConc ==
    \/ \E t \in Threads, a \in ConcArgs, e \in Ages : CallEnter(t, a, e)
    \/ \E t \in Threads, out \in Outputs : Invoke(t, out)
    \/ \E t \in Threads : CallReturn(t)

SpecConc == InitConc /\ [][NextConc]_vars

\* ------------------------------------------------------------ fetch_shortcode_js
UpperChars == <<"D", "E", "G", "L", "O", "P", "S", "T", "U">>
LowerChars == <<"d", "e", "g", "l", "o", "p", "s", "t", "u">>

\* char::to_lowercase on the characters that occur in the methods.
ToLowerChar(c) ==
    IF \E i \in 1..Len(UpperChars) : UpperChars[i] = c
    THEN LowerChars[CHOOSE i \in 1..Len(UpperChars) : UpperChars[i] = c]
    ELSE c

\* str::to_lowercase
ToLowercase(s) == [i \in 1..Len(s) |-> ToLowerChar(s[i])]

\* Option::unwrap_or
UnwrapOr(o, default) == IF o.some THEN o.v ELSE default

\* The literal chunks of the format! templates.
GetOpen == "const response = await fetch(\""
GetClose == "\");"
PostOpen == "const request = new Request(\""
PostMiddle == "\", { headers: ..., method: \"POST\", body: JSON.stringify("
PostClose == "), }); const response = await fetch(request);"
OutputOpen == "<output style=...>Invalid method "
OutputMiddle == " for url "
OutputClose == " (only GET and POST methods available)</output>"
ScriptOpen == "<script>(function () { async function fetchShortcodeData() { try {"
ScriptClose == "... currentScript.remove(); })(); })();</script>"
NoscriptOpen == "<noscript><a href=\""
NoscriptMiddle == "\">"
NoscriptClose == "</a></noscript>"

fetch_shortcode_js_CaseSensitive(url, method, json_body, alt) ==
    LET m == UnwrapOr(method, <<"G", "E", "T">>)
        body == UnwrapOr(json_body, <<"{}">>)
        js_code(fetch_js) == <<ScriptOpen>> \o fetch_js \o <<ScriptClose>>
    IN  IF m = <<"g", "e", "t">>
        THEN IF alt.some
             THEN js_code(<<GetOpen>> \o url \o <<GetClose>>)
                  \o <<NoscriptOpen>> \o url \o <<NoscriptMiddle>> \o alt.v
                  \o <<NoscriptClose>>
             ELSE js_code(<<GetOpen>> \o url \o <<GetClose>>)
        ELSE IF m = <<"p", "o", "s", "t">>
        THEN js_code(<<PostOpen>> \o url \o <<PostMiddle>> \o body
                     \o <<PostClose>>)
        ELSE <<OutputOpen>> \o m \o <<OutputMiddle>> \o url \o <<OutputClose>>

\* fetch_shortcode_js(url, method, json_body, alt)
fetch_shortcode_js(url, method, json_body, alt) ==
    LET m == UnwrapOr(method, <<"G", "E", "T">>)
        body == UnwrapOr(json_body, <<"{}">>)
        lower == ToLowercase(m)
        js_code(fetch_js) == <<ScriptOpen>> \o fetch_js \o <<ScriptClose>>
    IN  IF lower = <<"g", "e", "t">>
        THEN IF alt.some
             THEN js_code(<<GetOpen>> \o url \o <<GetClose>>)
                  \o <<NoscriptOpen>> \o url \o <<NoscriptMiddle>> \o alt.v
                  \o <<NoscriptClose>>
             ELSE js_code(<<GetOpen>> \o url \o <<GetClose>>)
        ELSE IF lower = <<"p", "o", "s", "t">>
        THEN js_code(<<PostOpen>> \o url \o <<PostMiddle>> \o body
                     \o <<PostClose>>)
        ELSE <<OutputOpen>> \o m \o <<OutputMiddle>> \o url \o <<OutputClose>>

Urls == {<<"http://h/data">>, <<"/products?limit=4">>}

Methods ==
    { None,
      Some(<<"G", "E", "T">>), Some(<<"g", "e", "t">>), Some(<<"G", "e", "t">>),
      Some(<<"P", "O", "S", "T">>), Some(<<"p", "o", "s", "t">>),
      Some(<<"p", "O", "s", "T">>),
      Some(<<"P", "U", "T">>), Some(<<"g", "e", "t", "s">>),
      Some(<<"D", "E", "L", "E", "T", "E">>), Some(<<>>) }

Bodies == {None, Some(<<"{\"key\": \"value\"}">>)}

Alts == {None, Some(<<"No JavaScript fallback">>), Some(<<>>)}

FetchInputs == [alt : Alts, json_body : Bodies, method : Methods, url : Urls]

InitFetchInputs ==
    /\ InitCall /\ InitKey
    /\ fIn \in FetchInputs
    /\ fOut = <<>>
    /\ fDone = FALSE

FetchJs ==
    /\ ~fDone
    /\ fOut' = fetch_shortcode_js(fIn.url, fIn.method, fIn.json_body, fIn.alt)
    /\ fDone' = TRUE
    /\ UNCHANGED <<fIn, keyVars>>
    /\ UNCHANGED <<functions, latest, pc, args, elapsed, prevRet, held, passed,
                   invoked, frag, ret, count, cacheFiles>>

SpecFetch == InitFetchInputs /\ [][FetchJs]_vars

\* ------------------------------------------------------------ key derivation
\* Entries an argument list is made of.
MaxPairs == 3
KeyNames == {"display", "rotate", "image_src"}
KeyVals == {Str(<<"a">>), Str(<<"\"", "5", "\"">>), Num(<<"1">>)}

DistinctKeys(list) ==
    \A i, j \in 1..Len(list) : i # j => list[i][1] # list[j][1]

PairLists ==
    { l \in UNION { [1..n -> KeyNames \X KeyVals] : n \in 0..MaxPairs } :
        DistinctKeys(l) }

InitKeyInputs ==
    /\ InitCall /\ InitFetch
    /\ kIn \in PairLists \X PairLists
    /\ kOut = <<<<>>, <<>>>>
    /\ kDone = FALSE

DeriveKeys ==
    /\ ~kDone
    /\ kOut' = <<CacheKey(kIn[1]), CacheKey(kIn[2])>>
    /\ kDone' = TRUE
    /\ UNCHANGED <<kIn, fetchVars>>
    /\ UNCHANGED <<functions, latest, pc, args, elapsed, prevRet, held, passed,
                   invoked, frag, ret, count, cacheFiles>>

SpecKey == InitKeyInputs /\ [][DeriveKeys]_vars

\* ------------------------------------------------------------ quoted names
\* One caller dispatching every display string of up to MaxStrLen characters
\* against registries whose names may begin or end with a quote.
MaxStrLen == 3
NameChars == {"a", "'", "\""}

DisplayStrings == UNION { [1..n -> NameChars] : n \in 0..MaxStrLen }

QuoteRegNames == {<<"a">>, <<"'", "a">>, <<"a", "\"">>}

QuoteRegistries ==
    UNION { [ns -> Fns] : ns \in SUBSET QuoteRegNames }

InitQuote ==
    /\ functions \in QuoteRegistries
    /\ latest = functions
    /\ InitCallers
    /\ InitFetch /\ InitKey

NextQuote ==
    \/ \E d \in DisplayStrings : CallEnter(Main, [display |-> Str(d)], 0)
    \/ \E out \in Outputs : Invoke(Main, out)
    \/ CallReturn(Main)

SpecQuote == InitQuote /\ [][NextQuote]_vars

\* ------------------------------------------------------------ properties
\* The caller's last call has ended: it returned or it panicked.
Ended(t) == pc[t] = "idle" /\ ret[t].kind # "None"

\* The name the lookup of the caller's call used.
NameOf(a) == TrimMatches(a["display"].s)

HasName(a) == HasKey(a, "display") /\ a["display"].tag = "String"

\* C1: a call whose argument map has no display key returns, as Ok, the text
\* "Missing display attribute", and has invoked no function.
C1_MissingDisplay ==
    \A t \in Threads :
        (Ended(t) /\ ~HasKey(args[t], "display")) =>
            /\ ret[t] = [kind |-> "Ok", text |-> <<"Missing display attribute">>]
            /\ invoked[t] = "none"
            /\ held[t] = "none"

C1_Witness ==
    /\ Ended(Main) /\ ~HasKey(args[Main], "display")
    /\ HasKey(args[Main], "rotate")
    /\ DOMAIN functions # {}
    /\ ret[Main].kind = "Ok"

\* C2: a call whose display names no registered function returns, as Ok,
\* "Unknown shortcode display name: <name>", has invoked no function, and
\* no cache file exists after it.
C2_UnknownName ==
    \A t \in Threads :
        (Ended(t) /\ HasName(args[t]) /\ NameOf(args[t]) \notin DOMAIN functions) =>
            /\ ret[t] = [kind |-> "Ok",
                         text |-> <<"Unknown shortcode display name: ">>
                                  \o NameOf(args[t])]
            /\ invoked[t] = "none"
            /\ DOMAIN cacheFiles = {}

C2_Witness ==
    /\ Ended(Main)
    /\ HasName(args[Main])
    /\ args[Main]["display"] = Str(<<"b">>)
    /\ <<"a">> \in DOMAIN functions
    /\ ret[Main] = Ok(<<"Unknown shortcode display name: ", "b">>)

\* The previous call of the caller had the same arguments and returned the
\* fragment of a function.
IsFragment(r) == r.kind = "Ok" /\ r.text \in Outputs

\* rotate, the time to live in seconds: 0 when absent.
Digits == <<"0", "1", "2", "3", "4", "5", "6", "7", "8", "9">>

DigitVal(c) == (CHOOSE i \in 1..Len(Digits) : Digits[i] = c) - 1

RECURSIVE ParseInt(_)
ParseInt(s) ==
    IF s = <<>> THEN 0
    ELSE 10 * ParseInt(SubSeq(s, 1, Len(s) - 1)) + DigitVal(s[Len(s)])

Rotate(a) == IF HasKey(a, "rotate") THEN ParseInt(a["rotate"].s) ELSE 0

TotalCount == count["f1"] + count["f2"]

C7_LastWriteWins ==
    /\ DOMAIN functions = DOMAIN latest
    /\ \A n \in DOMAIN latest : functions[n] = latest[n]
    /\ \A t \in Threads :
           /\ pc[t] = "computed" =>
                  /\ HasName(args[t])
                  /\ invoked[t] = latest[NameOf(args[t])]
                  /\ passed[t] = args[t]
           /\ (Ended(t) /\ invoked[t] \in Fns) => ret[t] = Ok(frag[t])

C7_Witness ==
    /\ pc[Main] = "computed"
    /\ DOMAIN functions = {<<"a">>}
    /\ count["f1"] = 1
    /\ invoked[Main] = "f2"
    /\ HasKey(args[Main], "image_src")

\* C8 as stated: a call with an argument value that is no string ends in an
\* InvalidArgument error.
C8_InvalidArgument ==
    \A t \in Threads :
        (Ended(t) /\ \E k \in DOMAIN args[t] : args[t][k].tag # "String") =>
            ret[t].kind = "Err"

\* A step of a call: something of a caller changes.
DispatchStep ==
    \E t \in Threads :
        \/ pc'[t] # pc[t]
        \/ ret'[t] # ret[t]
        \/ args'[t] # args[t]
        \/ elapsed'[t] # elapsed[t]
        \/ prevRet'[t] # prevRet[t]

\* C10: no step of a call adds, removes or replaces a registry entry.
C10_RegistryReadOnly == [][DispatchStep => functions' = functions]_vars

C10_Witness ==
    /\ Ended(Main)
    /\ ret[Main].text = <<"Unknown shortcode display name: ">>
    /\ count["f2"] > 0
    /\ DOMAIN functions = RegNames

\* The cache key of the argument map of the caller's call.
KeyOf(t) == CacheKey(ListOf(args[t])).key

Content(list) == { list[i] : i \in { j \in 1..Len(list) : list[j][1] # "rotate" } }

\* C6: two argument lists with the same entries apart from rotate, in
\* whatever order, have the same cache key.
C6_KeyIgnoresRotateAndOrder ==
    (kDone /\ Content(kIn[1]) = Content(kIn[2])) => kOut[1] = kOut[2]

C6_Witness ==
    /\ kDone
    /\ Content(kIn[1]) = Content(kIn[2])
    /\ Len(kIn[1]) = 3 /\ Len(kIn[2]) = 2
    /\ kIn[1][1][1] = "rotate"
    /\ kIn[1][2] = kIn[2][2] /\ kIn[1][3] = kIn[2][1]
    /\ kOut[1].ok

HasToken(out, tok) == \E i \in 1..Len(out) : out[i] = tok

\* The method of the call, GET when absent, is s in some mix of cases.
MethodIs(s) ==
    ToLowercase(IF fIn.method.some THEN fIn.method.v ELSE <<"G", "E", "T">>) = s

Quoted(n) == n # <<>> /\ (n[1] \in QuoteChars \/ n[Len(n)] \in QuoteChars)

\* n is s without its leading and trailing quote characters, all of them.
StripsTo(s, n) ==
    \E i \in 0..Len(s) : \E j \in i..Len(s) :
        /\ n = SubSeq(s, i + 1, j)
        /\ \A k \in 1..i : s[k] \in QuoteChars
        /\ \A k \in (j + 1)..Len(s) : s[k] \in QuoteChars
        /\ ~Quoted(n)

\* C11: the lookup uses the display value without any of its leading and
\* trailing quote characters. A call holds the function registered under
\* that stripped name, whatever quotes surround it; the unknown-name sentinel
\* shows the stripped name; a function registered only under names that
\* begin or end with a quote is never held or invoked.
C11_AllQuotesStripped ==
    /\ \A t \in Threads :
           /\ pc[t] \in {"invoking", "computed"} =>
                  \E n \in DOMAIN functions :
                      /\ StripsTo(args[t]["display"].s, n)
                      /\ held[t] = functions[n]
           /\ (Ended(t) /\ HasName(args[t]) /\ invoked[t] = "none") =>
                  \E i \in 0..Len(args[t]["display"].s) :
                  \E j \in i..Len(args[t]["display"].s) :
                      LET n == SubSeq(args[t]["display"].s, i + 1, j)
                      IN  /\ StripsTo(args[t]["display"].s, n)
                          /\ ret[t] = [kind |-> "Ok",
                                       text |-> <<"Unknown shortcode display name: ">>
                                                \o n]
    /\ (\A n \in DOMAIN functions : Quoted(n)) =>
           /\ TotalCount = 0
           /\ \A t \in Threads : held[t] = "none"

C11_Witness ==
    /\ pc[Main] = "computed"
    /\ args[Main]["display"].s = <<"\"", "'", "a">>
    /\ DOMAIN functions = {<<"a">>, <<"'", "a">>}
    /\ functions[<<"'", "a">>] = "f2"
    /\ invoked[Main] = "f1"
    /\ prevRet[Main] = NoResult
    /\ ret[Main] = NoResult

====
